---- MODULE Spec2Model ----
(***************************************************************************)
(* Model of anaconda_lib/linting/sublime.py: the ANACONDA diagnostic store *)
(* (per-view error / warning / violation maps and the underline list), the *)
(* Linter aggregation (parse_errors, parse_errors_pylint, add_message,     *)
(* underline_range, underline_regex), parse_results, which replaces a      *)
(* view's snapshot when the worker delivers a result, and get_lineno_msgs, *)
(* which reads the store both from parse_results (update_statusbar) and    *)
(* from the editor's own thread.                                           *)
(*                                                                         *)
(* Text is modelled as a sequence of tokens: "a" (a lower-case letter),    *)
(* "A" (an upper-case letter), "." (a period) and "import *" (that literal *)
(* substring); code identifiers are sequences of one-character tokens.     *)
(***************************************************************************)
EXTENDS Integers, Sequences, FiniteSets, TLC

\* ------------------------------------------------------------------ bounds
\* longest diagnostic list the worker returns in the aggregation specification
MaxErrors == 2
\* re-lint requests issued in the store specification
MaxRequests == 2
\* the view's buffer: NumLines lines of LineLen characters each
NumLines == 2
LineLen == 4

\* ------------------------------------------------------- python data values
\* Python's None where an integer is expected (offset, len, selected line)
None == -1
\* view.id(): one view is modelled
Vid == 1
\* the keys of errors_level
Levels == {"E", "W", "V"}
\* a diagnostic without a 'level' key
Absent == "absent"
\* {} : the empty dict
EmptyDict == [k \in {} |-> <<>>]

\* d[k] = v on a dict
Put(d, k, v) == [x \in (DOMAIN d) \cup {k} |-> IF x = k THEN v ELSE d[x]]
\* d.get(k, default)
Get(d, k, default) == IF k \in DOMAIN d THEN d[k] ELSE default

\* str.upper() of a token's first character
Upper(c) ==
    CASE c = "a" -> "A"
      [] c = "import *" -> "Import *"
      [] OTHER -> c

\* needle in text, for str: needle occurs as a contiguous run of text
IsSubstring(needle, text) ==
    \E k \in 0..(Len(text) - Len(needle)) :
        \A j \in 1..Len(needle) : text[k + j] = needle[j]

\* 'import *' in error['raw_error']
HasImportStar(raw_error) == \E k \in 1..Len(raw_error) : raw_error[k] = "import *"

\* ------------------------------------------------------------------ the view
\* view.full_line(view.text_point(lineno, 0)).begin(), lineno zero-based
line_begin(lineno) == lineno * LineLen
\* offsets the syntax scopes as string or comment (the last character of the
\* first line and the third character of every line after it)
NotCode == {LineLen - 1} \cup {l * LineLen + 2 : l \in 1..(NumLines - 1)}
RegionMutant(a) == <<a, a + 1>>
\* sublime.Region(a): the second end defaults to the first, an empty region
\* (add_lint_marks draws the underlines with DRAW_EMPTY_AS_OVERWRITE)
Region(a) == <<a, a>>
\* region.begin()
RegionBegin(r) == IF r[1] <= r[2] THEN r[1] ELSE r[2]

\* view.match_selector(point, 'source.python - string - comment')
is_that_code(point) == point \notin NotCode

\* ------------------------------------------------------------------- Linter
\* Linter.add_message; raised: message[0] on an empty message is an IndexError,
\* after lines.add(lineno)
add_message(lineno, lines, message, messages) ==
    LET ln == lineno - 1 IN
    IF message = <<>>
    THEN [raised |-> TRUE, lines |-> lines \cup {ln}, messages |-> messages]
    ELSE LET m1 == <<Upper(message[1])>> \o Tail(message)
             m2 == IF m1[Len(m1)] = "." THEN SubSeq(m1, 1, Len(m1) - 1) ELSE m1
         IN  [raised |-> FALSE, lines |-> lines \cup {ln},
              messages |-> IF ln \in DOMAIN messages
                           THEN Put(messages, ln, Append(messages[ln], m2))
                           ELSE Put(messages, ln, <<m2>>)]

\* the loop of underline_range: for i in range(length)
RECURSIVE underline_loop(_, _, _, _)
underline_loop(position, i, length, underlines) ==
    IF i >= length THEN underlines
    ELSE underline_loop(position, i + 1, length,
            IF is_that_code(RegionBegin(Region(position + i)))
            THEN Append(underlines, Region(position + i))
            ELSE underlines)

\* Linter.underline_range, lineno one-based
underline_range(lineno, position, underlines, length) ==
    underline_loop(position + line_begin(lineno - 1), 0, length, underlines)

\* the loop of underline_regex over results, the (start, end) spans of the
\* 'underline' group that pass the wordmatch filter
RECURSIVE underline_results(_, _, _, _, _)
underline_results(lineno, offset, results, k, underlines) ==
    IF k > Len(results) THEN underlines
    ELSE underline_results(lineno, offset, results, k + 1,
            underline_range(lineno, results[k][1] + offset, underlines,
                            results[k][2] - results[k][1]))

\* Linter.underline_regex. What re.match(linematch, line_text) and
\* re.finditer(regex, ...) find on the line comes with the diagnostic:
\* linematch is "none" (no linematch given), "nomatch" or "match",
\* re_offset is match.start('match'), re_results the kept spans.
underline_regex(error, lines, underlines) ==
    LET lines1 == lines \cup {error.lineno - 1} IN
    IF error.linematch = "nomatch"
    THEN [lines |-> lines1, underlines |-> underlines]
    ELSE [lines |-> lines1,
          underlines |-> underline_results(error.lineno,
                            IF error.linematch = "match" THEN error.re_offset ELSE 0,
                            error.re_results, 1, underlines)]

\* ------------------------------------------------- parse_errors, one error
\* The locals of one Linter.parse_errors / parse_errors_pylint call:
\*   raised  an exception left the call
\*   lines   the set `lines`
\*   under   errors_level[level]['underlines']
\*   msgs    errors_level[level]['messages'], which ARE the store's dicts
\*           ANACONDA[...][vid]: add_message writes straight into the store
error_level(error) == IF error.level = Absent THEN "W" ELSE error.level

skips_import_starMutant(error, ignore_star) ==
    error.raw_error = <<"import *">> /\ ignore_star
\* line 138: 'import *' in error['raw_error'] and ignore_star
skips_import_star(error, ignore_star) ==
    HasImportStar(error.raw_error) /\ ignore_star

\* one iteration of the for loop of Linter.parse_errors
parse_errors_iter(error, st, ignore_star) ==
    LET level == error_level(error) IN
    IF skips_import_star(error, ignore_star) THEN st
    ELSE LET am == add_message(error.lineno, st.lines, error.raw_error,
                               st.msgs[level])
         IN  IF am.raised THEN [st EXCEPT !.raised = TRUE, !.lines = am.lines]
             ELSE LET st1 == [st EXCEPT !.lines = am.lines,
                                        !.msgs[level] = am.messages]
                  IN  IF error.pep8
                      THEN [st1 EXCEPT !.under[level] =
                                underline_range(error.lineno, error.offset, @, 1)]
                      ELSE IF error.len # None
                      THEN [st1 EXCEPT !.under[level] =
                                underline_range(error.lineno, error.offset, @,
                                                error.len)]
                      ELSE LET ur == underline_regex(error, st1.lines,
                                                     st1.under[level])
                           IN  [st1 EXCEPT !.lines = ur.lines,
                                           !.under[level] = ur.underlines]

\* error['code'] in pylint_ignores, by the type of the configured value:
\* a list tests membership, a str tests for a substring, anything else
\* (None, a number) raises TypeError
code_in(code, pylint_ignores) ==
    CASE pylint_ignores.type = "list" -> code \in pylint_ignores.items
      [] pylint_ignores.type = "str" -> IsSubstring(code, pylint_ignores.text)
      [] OTHER -> FALSE
raises_TypeError(pylint_ignores) == pylint_ignores.type \notin {"list", "str"}

\* one iteration of the inner for loop of Linter.parse_errors_pylint; the
\* TypeError is caught and printed, and the iteration goes on. An offset is
\* carried as the integer int(error['offset']) yields.
parse_errors_pylint_iter(error, st, pylint_ignores, pylint_rcfile) ==
    LET level == error.level IN
    IF ~raises_TypeError(pylint_ignores)
       /\ code_in(error.code, pylint_ignores) /\ ~pylint_rcfile
    THEN st
    ELSE LET am == add_message(error.line, st.lines, error.message, st.msgs[level])
         IN  IF am.raised THEN [st EXCEPT !.raised = TRUE, !.lines = am.lines]
             ELSE LET st1 == [st EXCEPT !.lines = am.lines,
                                        !.msgs[level] = am.messages]
                  IN  IF error.offset # None
                      THEN [st1 EXCEPT !.under[level] =
                                underline_range(error.line, error.offset, @, 1)]
                      ELSE st1

\* lines 409-412 of parse_results: results['lines'].update(...) and the
\* append of every pep8 underline, level by level
merge_resultsMutant(results, pep8_results) ==
    [lines |-> pep8_results.lines,
     under |-> [l \in Levels |->
                  IF pep8_results.under[l] = <<>> THEN results.under[l]
                  ELSE pep8_results.under[l]]]
merge_results(results, pep8_results) ==
    [lines |-> results.lines \cup pep8_results.lines,
     under |-> [l \in Levels |-> results.under[l] \o pep8_results.under[l]]]

\* lines 417-419 of parse_results
stored_underlines(under) == under["E"] \o under["V"] \o under["W"]

\* ------------------------------------------------------ whole calls, as folds
\* the locals at the start of parse_errors / parse_errors_pylint over the
\* store dicts msgs
NewCall(msgs) ==
    [raised |-> FALSE, lines |-> {}, under |-> [l \in Levels |-> <<>>],
     msgs |-> msgs]

\* Linter.parse_errors(errors) from the k-th error on; an exception ends it.
\* errors None returns what an empty list returns (lines 128-129).
RECURSIVE parse_errors(_, _, _, _)
parse_errors(errors, k, st, ignore_star) ==
    IF k > Len(errors) \/ st.raised THEN st
    ELSE parse_errors(errors, k + 1, parse_errors_iter(errors[k], st, ignore_star),
                      ignore_star)

\* Linter.parse_errors_pylint(errors). The dict of lists, level by level, is
\* walked as one list whose records carry their level.
RECURSIVE parse_errors_pylint(_, _, _, _, _)
parse_errors_pylint(errors, k, st, pylint_ignores, pylint_rcfile) ==
    IF k > Len(errors) \/ st.raised THEN st
    ELSE parse_errors_pylint(errors, k + 1,
            parse_errors_pylint_iter(errors[k], st, pylint_ignores, pylint_rcfile),
            pylint_ignores, pylint_rcfile)

NoMsgs == [l \in Levels |-> EmptyDict]

\* What one whole parse_results(data) call that passes the guard of line 392
\* computes from cleared maps: the three maps, the touched lines, the
\* per-level underlines and the stored underline list.
Snapshot(d, v) ==
    IF ~v.use_pylint
    THEN LET r == parse_errors(d.errors, 1, NewCall(NoMsgs), v.ignore_star)
         IN  [raised |-> r.raised, msgs |-> r.msgs, lines |-> r.lines,
              under |-> r.under, U |-> stored_underlines(r.under)]
    ELSE LET r == parse_errors_pylint(d.errors, 1, NewCall(NoMsgs),
                                      v.pylint_ignore, v.pylint_rcfile)
         IN  IF r.raised \/ d.pep8_errors = <<>>
             THEN [raised |-> r.raised, msgs |-> r.msgs, lines |-> r.lines,
                   under |-> r.under, U |-> stored_underlines(r.under)]
             ELSE LET p == parse_errors(d.pep8_errors, 1, NewCall(r.msgs),
                                        v.ignore_star)
                      m == merge_results(r, p)
                  IN  [raised |-> p.raised, msgs |-> p.msgs, lines |-> m.lines,
                       under |-> m.under, U |-> stored_underlines(m.under)]

\* -------------------------------------------------------------------- inputs
\* a diagnostic of the pyflakes / pep8 shape (parse_errors)
Err(level, lineno, raw_error, pep8, offset, len, linematch, re_offset, re_results) ==
    [level |-> level, lineno |-> lineno, raw_error |-> raw_error, pep8 |-> pep8,
     offset |-> offset, len |-> len, linematch |-> linematch,
     re_offset |-> re_offset, re_results |-> re_results]
\* a diagnostic of the pylint shape (parse_errors_pylint)
PyErr(level, code, line, message, offset) ==
    [level |-> level, code |-> code, line |-> line, message |-> message,
     offset |-> offset]

\* pep8: a violation on line 1 with a trailing period, underlined at a code offset
e_pep8 == Err("V", 1, <<"a", ".">>, TRUE, 1, None, "none", 0, <<>>)
\* pep8: a message that is only a period, at an offset inside a comment
e_dot == Err("V", 2, <<".">>, TRUE, 2, None, "none", 0, <<>>)
\* pep8: an empty message
e_empty == Err("E", 2, <<>>, TRUE, 0, None, "none", 0, <<>>)
\* an explicit length that runs into a string
e_len == Err("E", 1, <<"A">>, FALSE, 2, 2, "none", 0, <<>>)
\* pyflakes: import * used, no level, located by linematch and regex
e_star == Err(Absent, 2, <<"a", "import *">>, FALSE, None, None, "match", 1,
              << <<0, 2>> >>)
\* pyflakes: linematch does not match the line
e_nomatch == Err("W", 1, <<"a">>, FALSE, None, None, "nomatch", 0, <<>>)
\* pyflakes: regex alone, two matches, the second with an empty group
e_regex == Err("W", 1, <<"a", "a">>, FALSE, None, None, "none", 0,
               << <<0, 1>>, <<2, 2>> >>)

p_err == PyErr("E", <<"E", "1">>, 1, <<"a">>, 0)
\* pylint before 1.0.0 returns no offset
p_warn == PyErr("W", <<"W", "1">>, 2, <<".">>, None)
p_conv == PyErr("V", <<"C", "1">>, 2, <<"a", ".">>, 1)

\* the values of the pylint_ignore setting: the default [], a list of codes,
\* a comma separated str, and a value that is no container (None, a number)
Ignore(type, items, text) == [type |-> type, items |-> items, text |-> text]
IgnoreValues ==
    {Ignore("list", {}, <<>>), Ignore("list", {<<"C", "1">>}, <<>>),
     Ignore("str", {}, <<"E", "1", ",", "C", "1">>), Ignore("other", {}, <<>>)}

\* what parse_results reads of the view: is_python(view, True) and the settings
View(is_python, use_pylint, ignore_star, pylint_ignore, pylint_rcfile) ==
    [is_python |-> is_python, use_pylint |-> use_pylint,
     ignore_star |-> ignore_star, pylint_ignore |-> pylint_ignore,
     pylint_rcfile |-> pylint_rcfile]
\* the data the worker hands to parse_results
Data(success, errors, pep8_errors) ==
    [success |-> success, errors |-> errors, pep8_errors |-> pep8_errors]

SeqsUpTo(S, n) == UNION {[1..m -> S] : m \in 0..n}
\* a dict of lists walked level by level never returns to a level it left
Grouped(errors) ==
    \A a, b, c \in 1..Len(errors) :
        (a < b /\ b < c /\ errors[a].level = errors[c].level)
            => errors[b].level = errors[a].level

StdErrors == {e_pep8, e_dot, e_empty, e_len, e_star, e_nomatch, e_regex}
Pep8Errors == {e_pep8, e_dot, e_empty}
PylintErrors == {p_err, p_warn, p_conv}

\* the inputs of the aggregation specification: every list up to MaxErrors
AggInputs ==
    {<<Data(TRUE, errors, <<>>), View(TRUE, FALSE, ignore_star, Ignore("list", {}, <<>>), FALSE)>> :
        errors \in SeqsUpTo(StdErrors, MaxErrors), ignore_star \in BOOLEAN}
    \cup
    {<<Data(TRUE, x[1], x[2]), View(TRUE, TRUE, TRUE, x[3], x[4])>> :
        x \in {y \in SeqsUpTo(PylintErrors, MaxErrors) \X SeqsUpTo(Pep8Errors, MaxErrors)
                     \X IgnoreValues \X BOOLEAN : Grouped(y[1])}}
    \cup
    {<<Data(FALSE, <<e_pep8>>, <<>>), View(TRUE, FALSE, TRUE, Ignore("list", {}, <<>>), FALSE)>>,
     <<Data(TRUE, <<e_pep8>>, <<>>), View(FALSE, FALSE, TRUE, Ignore("list", {}, <<>>), FALSE)>>}

StdView == View(TRUE, FALSE, TRUE, Ignore("list", {}, <<>>), FALSE)
\* the inputs of the store specification
StoreInputs ==
    {<<Data(TRUE, <<e_len, e_regex, e_pep8>>, <<>>), StdView>>,
     <<Data(TRUE, <<e_dot, e_nomatch>>, <<>>), StdView>>,
     <<Data(TRUE, <<e_star, e_len>>, <<>>), StdView>>,
     <<Data(TRUE, <<e_pep8, e_empty>>, <<>>), StdView>>,
     <<Data(FALSE, <<e_pep8>>, <<>>), StdView>>,
     <<Data(TRUE, <<e_len>>, <<>>), View(FALSE, FALSE, TRUE, Ignore("list", {}, <<>>), FALSE)>>,
     <<Data(TRUE, <<p_err, p_conv>>, <<e_pep8>>),
       View(TRUE, TRUE, TRUE, Ignore("list", {<<"C", "1">>}, <<>>), FALSE)>>}

\* --------------------------------------------------------------------- state
VARIABLES
    ANACONDA,      \* the module's global: ERRORS, WARNINGS, VIOLATIONS, UNDERLINES
    inflight,      \* requests handed to the Worker and not yet answered
    issued,        \* number of run_linter calls so far
    pc,            \* where the worker's callback parse_results stands
    data,          \* parse_results: its argument
    view,          \* parse_results: what it reads of the view
    i,             \* parse_errors / parse_errors_pylint: index of the next error
    results,       \* parse_results: results (lines and per-level underlines)
    pep8_results,  \* parse_results: pep8_results
    sel,           \* update_statusbar: last_selected_lineno(view)
    status,        \* update_statusbar: errors, the messages it shows
    rd_pc,         \* a get_lineno_msgs call on the editor's thread
    rd_lineno,     \* its lineno
    rd_msgs,       \* its errors_msg
    rd_snaps,      \* history: what the complete snapshots current during that
                   \* call hold for rd_lineno
    prev,          \* history: ANACONDA when parse_results was last called
    last_snapshot  \* history: the snapshot of the last run that reached its end

vars == <<ANACONDA, inflight, issued, pc, data, view, i, results, pep8_results,
          sel, status, rd_pc, rd_lineno, rd_msgs, rd_snaps, prev, last_snapshot>>

Lines0 == 0..(NumLines - 1)
StoreKey == [E |-> "ERRORS", W |-> "WARNINGS", V |-> "VIOLATIONS"]
Stopped == {"idle", "rejected", "raised", "done"}
Reading == {"read_errors", "read_warnings", "read_violations"}
NoResults == [lines |-> {}, under |-> [l \in Levels |-> <<>>]]

\* the three maps of the view, level by level ({} where the view has none yet)
StoreMsgs(A) == [l \in Levels |-> Get(A[StoreKey[l]], Vid, EmptyDict)]
\* the view's stored snapshot: its three maps and its underline list
StoreOf(A) == [msgs |-> StoreMsgs(A), U |-> Get(A.UNDERLINES, Vid, <<>>)]
\* the store after a call wrote msgs into the view's three dicts
WithMsgs(A, msgs) ==
    [A EXCEPT !.ERRORS = Put(@, Vid, msgs["E"]),
              !.WARNINGS = Put(@, Vid, msgs["W"]),
              !.VIOLATIONS = Put(@, Vid, msgs["V"])]

get_lineno_msgsMutant(A, lineno) ==
    IF lineno = None THEN <<>>
    ELSE (IF Vid \in DOMAIN A.ERRORS THEN Get(A.ERRORS[Vid], lineno, <<>>) ELSE <<>>)
         \o (IF Vid \in DOMAIN A.VIOLATIONS
             THEN Get(A.VIOLATIONS[Vid], lineno, <<>>) ELSE <<>>)
         \o (IF Vid \in DOMAIN A.WARNINGS
             THEN Get(A.WARNINGS[Vid], lineno, <<>>) ELSE <<>>)
\* get_lineno_msgs(view, lineno), run without interruption
get_lineno_msgs(A, lineno) ==
    IF lineno = None THEN <<>>
    ELSE (IF Vid \in DOMAIN A.ERRORS THEN Get(A.ERRORS[Vid], lineno, <<>>) ELSE <<>>)
         \o (IF Vid \in DOMAIN A.WARNINGS
             THEN Get(A.WARNINGS[Vid], lineno, <<>>) ELSE <<>>)
         \o (IF Vid \in DOMAIN A.VIOLATIONS
             THEN Get(A.VIOLATIONS[Vid], lineno, <<>>) ELSE <<>>)

\* what a complete snapshot with the maps msgs holds for a line
MsgsAt(msgs, lineno) ==
    Get(msgs["E"], lineno, <<>>) \o Get(msgs["W"], lineno, <<>>)
        \o Get(msgs["V"], lineno, <<>>)

rejectsMutant(d, v) == d.success = FALSE /\ ~v.is_python
\* line 392: data and data['success'] is False or not is_python(view, True)
rejects(d, v) == d.success = FALSE \/ ~v.is_python

\* the module as loaded, with no parse_results call yet
Loaded ==
    /\ ANACONDA = [ERRORS |-> EmptyDict, WARNINGS |-> EmptyDict,
                   VIOLATIONS |-> EmptyDict, UNDERLINES |-> EmptyDict]
    /\ pc = "idle"
    /\ data = Data(TRUE, <<>>, <<>>)
    /\ view = StdView
    /\ i = 1
    /\ results = NoResults
    /\ pep8_results = NoResults
    /\ sel = None
    /\ status = <<>>
    /\ rd_pc = "idle"
    /\ rd_lineno = None
    /\ rd_msgs = <<>>
    /\ rd_snaps = {}
    /\ prev = ANACONDA
    /\ last_snapshot = StoreOf(ANACONDA)

Init == Loaded /\ inflight = {} /\ issued = 0
\* one request is with the Worker
InitAgg == Loaded /\ inflight = {1} /\ issued = 1

\* ------------------------------------------------------------------- actions
\* run_linter for a view whose file is not in ANACONDA['DISABLED']:
\* Worker().execute(parse_results, **data)
RunLinter ==
    /\ issued < MaxRequests
    /\ issued' = issued + 1
    /\ inflight' = inflight \cup {issued + 1}
    /\ UNCHANGED <<ANACONDA, pc, data, view, i, results, pep8_results, sel, status,
                   rd_pc, rd_lineno, rd_msgs, rd_snaps, prev, last_snapshot>>

\* The Worker answers request req, in any order, and calls parse_results(d)
\* while the view reads as v: lines 391-396. Callbacks run one at a time.
Deliver(req, d, v) ==
    /\ pc \in Stopped
    /\ req \in inflight
    /\ inflight' = inflight \ {req}
    /\ data' = d
    /\ view' = v
    /\ i' = 1
    /\ results' = NoResults
    /\ pep8_results' = NoResults
    /\ pc' = IF rejects(d, v) THEN "rejected" ELSE "clear_errors"
    /\ prev' = ANACONDA
    /\ rd_snaps' = IF rd_pc \in Reading
                   THEN rd_snaps \cup {MsgsAt(StoreMsgs(ANACONDA), rd_lineno)}
                        \cup (IF rejects(d, v) \/ Snapshot(d, v).raised THEN {}
                              ELSE {MsgsAt(Snapshot(d, v).msgs, rd_lineno)})
                   ELSE rd_snaps
    /\ sel' = None
    /\ status' = <<>>
    /\ UNCHANGED <<ANACONDA, issued, rd_pc, rd_lineno, rd_msgs, last_snapshot>>

\* line 399: ANACONDA['ERRORS'][vid] = {}
ClearErrors ==
    /\ pc = "clear_errors"
    /\ ANACONDA' = [ANACONDA EXCEPT !.ERRORS = Put(@, Vid, EmptyDict)]
    /\ pc' = "clear_warnings"
    /\ UNCHANGED <<inflight, issued, data, view, i, results, pep8_results, sel,
                   status, rd_pc, rd_lineno, rd_msgs, rd_snaps, prev, last_snapshot>>

\* line 400: ANACONDA['WARNINGS'][vid] = {}
ClearWarnings ==
    /\ pc = "clear_warnings"
    /\ ANACONDA' = [ANACONDA EXCEPT !.WARNINGS = Put(@, Vid, EmptyDict)]
    /\ pc' = "clear_violations"
    /\ UNCHANGED <<inflight, issued, data, view, i, results, pep8_results, sel,
                   status, rd_pc, rd_lineno, rd_msgs, rd_snaps, prev, last_snapshot>>

\* lines 401-403: ANACONDA['VIOLATIONS'][vid] = {} and the choice of the parser
ClearViolations ==
    /\ pc = "clear_violations"
    /\ ANACONDA' = [ANACONDA EXCEPT !.VIOLATIONS = Put(@, Vid, EmptyDict)]
    /\ pc' = IF view.use_pylint THEN "parse_errors_pylint" ELSE "parse_errors"
    /\ UNCHANGED <<inflight, issued, data, view, i, results, pep8_results, sel,
                   status, rd_pc, rd_lineno, rd_msgs, rd_snaps, prev, last_snapshot>>

\* the locals of the running parse_errors call over r and the store's dicts
Call(r) ==
    [raised |-> FALSE, lines |-> r.lines, under |-> r.under,
     msgs |-> StoreMsgs(ANACONDA)]

\* line 404, Linter(view).parse_errors(data['errors']): one error
ParseErrorsStep ==
    /\ pc = "parse_errors"
    /\ i <= Len(data.errors)
    /\ LET st == parse_errors_iter(data.errors[i], Call(results), view.ignore_star)
       IN  /\ ANACONDA' = WithMsgs(ANACONDA, st.msgs)
           /\ results' = [lines |-> st.lines, under |-> st.under]
           /\ pc' = IF st.raised THEN "raised" ELSE pc
    /\ i' = i + 1
    /\ UNCHANGED <<inflight, issued, data, view, pep8_results, sel, status,
                   rd_pc, rd_lineno, rd_msgs, rd_snaps, prev, last_snapshot>>

\* line 404: parse_errors returns
ParseErrorsReturn ==
    /\ pc = "parse_errors"
    /\ i > Len(data.errors)
    /\ pc' = "underlines_E"
    /\ UNCHANGED <<ANACONDA, inflight, issued, data, view, i, results,
                   pep8_results, sel, status, rd_pc, rd_lineno, rd_msgs, rd_snaps,
                   prev, last_snapshot>>

\* line 406, Linter(view).parse_errors_pylint(data['errors']): one error
ParsePylintStep ==
    /\ pc = "parse_errors_pylint"
    /\ i <= Len(data.errors)
    /\ LET st == parse_errors_pylint_iter(data.errors[i], Call(results),
                                          view.pylint_ignore, view.pylint_rcfile)
       IN  /\ ANACONDA' = WithMsgs(ANACONDA, st.msgs)
           /\ results' = [lines |-> st.lines, under |-> st.under]
           /\ pc' = IF st.raised THEN "raised" ELSE pc
    /\ i' = i + 1
    /\ UNCHANGED <<inflight, issued, data, view, pep8_results, sel, status,
                   rd_pc, rd_lineno, rd_msgs, rd_snaps, prev, last_snapshot>>

\* lines 406-407: parse_errors_pylint returns; if data['pep8_errors']
ParsePylintReturn ==
    /\ pc = "parse_errors_pylint"
    /\ i > Len(data.errors)
    /\ pc' = IF data.pep8_errors # <<>> THEN "parse_pep8" ELSE "underlines_E"
    /\ i' = 1
    /\ UNCHANGED <<ANACONDA, inflight, issued, data, view, results, pep8_results,
                   sel, status, rd_pc, rd_lineno, rd_msgs, rd_snaps, prev,
                   last_snapshot>>

\* line 408, Linter(view).parse_errors(data['pep8_errors']): one error
ParsePep8Step ==
    /\ pc = "parse_pep8"
    /\ i <= Len(data.pep8_errors)
    /\ LET st == parse_errors_iter(data.pep8_errors[i], Call(pep8_results),
                                   view.ignore_star)
       IN  /\ ANACONDA' = WithMsgs(ANACONDA, st.msgs)
           /\ pep8_results' = [lines |-> st.lines, under |-> st.under]
           /\ pc' = IF st.raised THEN "raised" ELSE pc
    /\ i' = i + 1
    /\ UNCHANGED <<inflight, issued, data, view, results, sel, status,
                   rd_pc, rd_lineno, rd_msgs, rd_snaps, prev, last_snapshot>>

\* line 408: parse_errors returns pep8_results
ParsePep8Return ==
    /\ pc = "parse_pep8"
    /\ i > Len(data.pep8_errors)
    /\ pc' = "merge"
    /\ UNCHANGED <<ANACONDA, inflight, issued, data, view, i, results,
                   pep8_results, sel, status, rd_pc, rd_lineno, rd_msgs, rd_snaps,
                   prev, last_snapshot>>

\* lines 409-412
Merge ==
    /\ pc = "merge"
    /\ results' = merge_results(results, pep8_results)
    /\ pc' = "underlines_E"
    /\ UNCHANGED <<ANACONDA, inflight, issued, data, view, i, pep8_results, sel,
                   status, rd_pc, rd_lineno, rd_msgs, rd_snaps, prev, last_snapshot>>

\* line 417: ANACONDA['UNDERLINES'][vid] = errors['E']['underlines'][:]
UnderlinesE ==
    /\ pc = "underlines_E"
    /\ ANACONDA' = [ANACONDA EXCEPT !.UNDERLINES = Put(@, Vid, results.under["E"])]
    /\ pc' = "underlines_V"
    /\ UNCHANGED <<inflight, issued, data, view, i, results, pep8_results, sel,
                   status, rd_pc, rd_lineno, rd_msgs, rd_snaps, prev, last_snapshot>>

\* line 418: ANACONDA['UNDERLINES'][vid].extend(errors['V']['underlines'])
UnderlinesV ==
    /\ pc = "underlines_V"
    /\ ANACONDA' = [ANACONDA EXCEPT
                      !.UNDERLINES = Put(@, Vid, @[Vid] \o results.under["V"])]
    /\ pc' = "underlines_W"
    /\ UNCHANGED <<inflight, issued, data, view, i, results, pep8_results, sel,
                   status, rd_pc, rd_lineno, rd_msgs, rd_snaps, prev, last_snapshot>>

\* line 419: ANACONDA['UNDERLINES'][vid].extend(errors['W']['underlines'])
UnderlinesW ==
    /\ pc = "underlines_W"
    /\ ANACONDA' = [ANACONDA EXCEPT
                      !.UNDERLINES = Put(@, Vid, @[Vid] \o results.under["W"])]
    /\ pc' = "update_statusbar"
    /\ UNCHANGED <<inflight, issued, data, view, i, results, pep8_results, sel,
                   status, rd_pc, rd_lineno, rd_msgs, rd_snaps, prev, last_snapshot>>

\* lines 426-427: add_lint_marks draws in the editor (regions of the view,
\* which are no state of this module); update_statusbar shows
\* get_lineno_msgs(view, last_selected_lineno(view)); parse_results returns
UpdateStatusbar ==
    /\ pc = "update_statusbar"
    /\ \E l \in Lines0 \cup {None} :
          /\ sel' = l
          /\ status' = get_lineno_msgs(ANACONDA, l)
    /\ pc' = "done"
    /\ last_snapshot' = [msgs |-> Snapshot(data, view).msgs,
                         U |-> Snapshot(data, view).U]
    /\ UNCHANGED <<ANACONDA, inflight, issued, data, view, i, results,
                   pep8_results, rd_pc, rd_lineno, rd_msgs, rd_snaps, prev>>

\* the dict named key holds for the view at a line: lines 331-336
ReadLevel(key, lineno) ==
    IF Vid \in DOMAIN ANACONDA[key] THEN Get(ANACONDA[key][Vid], lineno, <<>>)
    ELSE <<>>

\* get_lineno_msgs(view, l) is called on the editor's thread: lines 324-330
ReadStart(l) ==
    /\ rd_pc \in {"idle", "ret"}
    /\ rd_lineno' = l
    /\ rd_msgs' = <<>>
    /\ rd_pc' = IF l = None THEN "ret" ELSE "read_errors"
    /\ rd_snaps' = IF l = None THEN {<<>>}
                   ELSE IF pc \in Stopped THEN {MsgsAt(StoreMsgs(ANACONDA), l)}
                   ELSE {MsgsAt(StoreMsgs(prev), l)}
                        \cup (IF Snapshot(data, view).raised THEN {}
                              ELSE {MsgsAt(Snapshot(data, view).msgs, l)})
    /\ UNCHANGED <<ANACONDA, inflight, issued, pc, data, view, i, results,
                   pep8_results, sel, status, prev, last_snapshot>>

\* lines 331-332
ReadErrors ==
    /\ rd_pc = "read_errors"
    /\ rd_msgs' = rd_msgs \o ReadLevel("ERRORS", rd_lineno)
    /\ rd_pc' = "read_warnings"
    /\ UNCHANGED <<ANACONDA, inflight, issued, pc, data, view, i, results,
                   pep8_results, sel, status, rd_lineno, rd_snaps, prev,
                   last_snapshot>>

\* lines 333-334
ReadWarnings ==
    /\ rd_pc = "read_warnings"
    /\ rd_msgs' = rd_msgs \o ReadLevel("WARNINGS", rd_lineno)
    /\ rd_pc' = "read_violations"
    /\ UNCHANGED <<ANACONDA, inflight, issued, pc, data, view, i, results,
                   pep8_results, sel, status, rd_lineno, rd_snaps, prev,
                   last_snapshot>>

\* lines 335-338
ReadViolations ==
    /\ rd_pc = "read_violations"
    /\ rd_msgs' = rd_msgs \o ReadLevel("VIOLATIONS", rd_lineno)
    /\ rd_pc' = "ret"
    /\ UNCHANGED <<ANACONDA, inflight, issued, pc, data, view, i, results,
                   pep8_results, sel, status, rd_lineno, rd_snaps, prev,
                   last_snapshot>>

\* one parse_results call after its guard
Run ==
    \/ ClearErrors \/ ClearWarnings \/ ClearViolations
    \/ ParseErrorsStep \/ ParseErrorsReturn
    \/ ParsePylintStep \/ ParsePylintReturn
    \/ ParsePep8Step \/ ParsePep8Return \/ Merge
    \/ UnderlinesE \/ UnderlinesV \/ UnderlinesW \/ UpdateStatusbar

\* the store: requests, answers in any order, and a reader on another thread
Next ==
    \/ RunLinter
    \/ \E req \in inflight : \E inp \in StoreInputs : Deliver(req, inp[1], inp[2])
    \/ Run
    \/ \E l \in Lines0 \cup {None} : ReadStart(l)
    \/ ReadErrors \/ ReadWarnings \/ ReadViolations

Spec == Init /\ [][Next]_vars

\* the aggregation: one answer, over every input list
NextAgg ==
    \/ \E req \in inflight : \E inp \in AggInputs : Deliver(req, inp[1], inp[2])
    \/ Run

SpecAgg == InitAgg /\ [][NextAgg]_vars

\* -------------------------------------------------------------------- claims
\* every message the view's three maps hold
StoredMessages ==
    {StoreMsgs(ANACONDA)[l][ln][k] :
        <<l, ln, k>> \in {t \in Levels \X Lines0 \X (1..(2 * (MaxErrors + 1))) :
            /\ t[2] \in DOMAIN StoreMsgs(ANACONDA)[t[1]]
            /\ t[3] <= Len(StoreMsgs(ANACONDA)[t[1]][t[2]])}}
\* every underline range a call holds or the store keeps
Ranges(under) == UNION {{under[l][k] : k \in 1..Len(under[l])} : l \in Levels}
AllUnderlines ==
    Ranges(results.under) \cup Ranges(pep8_results.under)
        \cup {StoreOf(ANACONDA).U[k] : k \in 1..Len(StoreOf(ANACONDA).U)}

\* C1: after parse_results is called with data whose success field is false,
\* the store (the three per-line maps and the underline list of the view,
\* and the whole ANACONDA global with them) is exactly what it was when the
\* call was made, whatever it held.
C1_FailedRunLeavesStore ==
    (pc # "idle" /\ data.success = FALSE) => ANACONDA = prev
\* such a call was made while the maps and the underline list held diagnostics
C1_Witness ==
    /\ pc = "rejected" /\ data.success = FALSE /\ view.is_python
    /\ StoreOf(ANACONDA).U # <<>>
    /\ StoreMsgs(ANACONDA)["E"] # EmptyDict
    /\ StoreMsgs(ANACONDA)["V"] # EmptyDict

\* C2: a get_lineno_msgs call that runs while parse_results replaces the
\* view's snapshot returns what a complete snapshot holds for the line: that
\* of the snapshot before the call or that of the new one, never a cleared or
\* half-filled mix.
C2_ReaderSeesWholeSnapshot == rd_pc = "ret" => rd_msgs \in rd_snaps

\* C3: whenever no parse_results call is running, the view's maps and
\* underline list are exactly the snapshot of the run that most recently ran
\* to its end, with nothing of an earlier run.
C3_StoreIsLastCompletedRun ==
    pc \in Stopped => StoreOf(ANACONDA) = last_snapshot

\* the message of a diagnostic of either shape
MessageOf(error) ==
    IF "raw_error" \in DOMAIN error THEN error.raw_error ELSE error.message
\* the list without the diagnostics whose message is empty
RECURSIVE WithoutEmpty(_)
WithoutEmpty(errors) ==
    IF errors = <<>> THEN <<>>
    ELSE IF MessageOf(Head(errors)) = <<>> THEN WithoutEmpty(Tail(errors))
    ELSE <<Head(errors)>> \o WithoutEmpty(Tail(errors))
\* C4: when a run fails partway (a diagnostic with an empty message), the
\* view's stored snapshot is afterwards the complete previous one or a
\* complete new one (that of the diagnostics that can be aggregated), never
\* an emptied or half-filled one.
C4_FailureLeavesWholeSnapshot ==
    pc = "raised" =>
        LET new == Snapshot(Data(TRUE, WithoutEmpty(data.errors),
                                 WithoutEmpty(data.pep8_errors)), view)
        IN  \/ StoreOf(ANACONDA) = StoreOf(prev)
            \/ StoreOf(ANACONDA) = [msgs |-> new.msgs, U |-> new.U]

\* C5 as claimed: update_statusbar shows the messages of the selected line in
\* the order errors, violations, warnings.
C5_ErrorViolationWarning ==
    (pc = "done" /\ sel # None) =>
        status = Get(StoreMsgs(ANACONDA)["E"], sel, <<>>)
                    \o Get(StoreMsgs(ANACONDA)["V"], sel, <<>>)
                    \o Get(StoreMsgs(ANACONDA)["W"], sel, <<>>)
\* C5 as amended: get_lineno_msgs returns the messages of the line in the
\* order errors, warnings, violations.
C5_ErrorWarningViolation ==
    (pc = "done" /\ sel # None) =>
        status = Get(StoreMsgs(ANACONDA)["E"], sel, <<>>)
                    \o Get(StoreMsgs(ANACONDA)["W"], sel, <<>>)
                    \o Get(StoreMsgs(ANACONDA)["V"], sel, <<>>)
\* the selected line holds a warning and a different violation
C5_Witness ==
    /\ pc = "done" /\ sel # None
    /\ Get(StoreMsgs(ANACONDA)["W"], sel, <<>>) # <<>>
    /\ Get(StoreMsgs(ANACONDA)["V"], sel, <<>>) # <<>>
    /\ Get(StoreMsgs(ANACONDA)["W"], sel, <<>>)
          # Get(StoreMsgs(ANACONDA)["V"], sel, <<>>)

\* parse_results is past the merge of a pylint run with pep8 results
Merged ==
    /\ view.use_pylint /\ data.pep8_errors # <<>>
    /\ pc \in {"underlines_E", "underlines_V", "underlines_W", "update_statusbar",
               "done"}
\* C6: with pylint in use and pep8 results present, the merged touched lines
\* are the union of the pylint run's and the pep8 run's touched lines, and
\* each level's merged underline list is as long as the two lists together.
C6_MergeIsUnionAndSum ==
    Merged =>
        LET pylint == parse_errors_pylint(data.errors, 1, NewCall(NoMsgs),
                                          view.pylint_ignore, view.pylint_rcfile)
        IN  /\ results.lines = pylint.lines \cup pep8_results.lines
            /\ \A l \in Levels :
                  Len(results.under[l])
                      = Len(pylint.under[l]) + Len(pep8_results.under[l])
\* both runs touched lines the other did not and underlined at the same level
C6_Witness ==
    /\ Merged
    /\ pep8_results.lines \ {e.line - 1 : e \in {data.errors[k] : k \in 1..Len(data.errors)}} # {}
    /\ results.lines \ pep8_results.lines # {}
    /\ Len(pep8_results.under["V"]) > 0
    /\ Len(results.under["V"]) > Len(pep8_results.under["V"])

C8_NoEmptyMessage == \A m \in StoredMessages : m # <<>>

\* the list without the diagnostics whose message contains "import *"
RECURSIVE WithoutImportStar(_)
WithoutImportStar(errors) ==
    IF errors = <<>> THEN <<>>
    ELSE IF HasImportStar(Head(errors).raw_error)
    THEN WithoutImportStar(Tail(errors))
    ELSE <<Head(errors)>> \o WithoutImportStar(Tail(errors))
\* parse_errors over data['errors'] has ended, with ignore-import-star set
StarRunEnded ==
    /\ ~view.use_pylint /\ view.ignore_star
    /\ pc \in {"underlines_E", "raised"}
\* C9: with ignore-import-star set, parse_errors leaves the maps, the touched
\* lines and the underlines exactly as it leaves them for the list without
\* its "import *" diagnostics: those add nothing, the others are unaffected.
C9_ImportStarIgnored ==
    StarRunEnded =>
        LET absent == parse_errors(WithoutImportStar(data.errors), 1,
                                   NewCall(NoMsgs), FALSE)
        IN  /\ StoreMsgs(ANACONDA) = absent.msgs
            /\ results.lines = absent.lines
            /\ results.under = absent.under
\* an "import *" diagnostic came after a diagnostic that was recorded
C9_Witness ==
    /\ StarRunEnded /\ pc = "underlines_E"
    /\ Len(data.errors) = 2
    /\ ~HasImportStar(data.errors[1].raw_error)
    /\ HasImportStar(data.errors[2].raw_error)
    /\ results.lines # {}
    /\ data.errors[2].lineno - 1 \notin results.lines

\* the pylint diagnostics C10 says are skipped: the code is in the ignore
\* list, the list is a list, and no rcfile is set
ClaimedSkipped(error) ==
    /\ view.pylint_ignore.type = "list"
    /\ error.code \in view.pylint_ignore.items
    /\ ~view.pylint_rcfile
ClaimedKept(l) ==
    {k \in 1..Len(data.errors) :
        data.errors[k].level = l /\ ~ClaimedSkipped(data.errors[k])}
RECURSIVE SumLen(_, _)
SumLen(d, keys) ==
    IF keys = {} THEN 0
    ELSE LET k == CHOOSE x \in keys : TRUE
         IN  Len(d[k]) + SumLen(d, keys \ {k})
\* C10: when the loop of parse_errors_pylint ends, the diagnostics recorded
\* are exactly those not skipped, a diagnostic being skipped exactly when its
\* code is in the ignore list and no rcfile is set, and never when the ignore
\* list is malformed; underlines come only from diagnostics with an offset.
C10_SkippedExactlyWhenIgnored ==
    (pc = "parse_errors_pylint" /\ i > Len(data.errors)) =>
        /\ results.lines
              = UNION {{data.errors[k].line - 1 : k \in ClaimedKept(l)} : l \in Levels}
        /\ \A l \in Levels :
              /\ SumLen(StoreMsgs(ANACONDA)[l], DOMAIN StoreMsgs(ANACONDA)[l])
                    = Cardinality(ClaimedKept(l))
              /\ Len(results.under[l])
                    <= Cardinality({k \in ClaimedKept(l) :
                                      data.errors[k].offset # None})
====
